---- MODULE Spec2Model ----
(***************************************************************************)
(* Pursuit-and-intercept simulation of src/src/main.rs.                    *)
(*                                                                         *)
(* The program computes on f64.  The model computes on fixed-point         *)
(* integers that fit TLC's 32-bit arithmetic:                              *)
(*   positions and velocities   1/PosScale  metre (per tick)               *)
(*   unit vectors, cosines      1/DirScale                                 *)
(*   radians, sin/cos of them   1/RadScale                                 *)
(*   intercept times            1/TimeScale tick                           *)
(*   angles in degrees          1/DegScale  degree                         *)
(* Every division rounds to the nearest representable value, as an f64     *)
(* operation does at its own (finer) resolution.  The 1e-9 tolerances of   *)
(* the source lie below every resolution used here, so "|x| < 1e-9" reads  *)
(* "x = 0" and "x > 1e-9" reads "x > 0".                                   *)
(***************************************************************************)
EXTENDS Integers, Sequences, FiniteSets, TLC

PosScale == 100
DirScale == 10000
RadScale == 100000
TimeScale == 1000
DegScale == 100

\* The closing-time quadratic is evaluated in 1/QuadScale square metres so
\* that its discriminant fits the integer width.
QuadScale == 100

\* One unit of the quadratic's coefficients, in squared position units.
QuadUnit == (PosScale * PosScale) \div QuadScale

(***************************************************************************)
(* Arithmetic                                                              *)
(***************************************************************************)
Abs(x) == IF x < 0 THEN -x ELSE x

\* The element of a one-element set.  Only({ e(x) : x \in { v } }) is e at the
\* value of v, v evaluated once: the `let x = v` of the source.
Only(S) == CHOOSE r \in S : TRUE

\* f64 division, rounded to the nearest unit (ties away from zero).
Rounded(a, b) ==
  IF (a < 0) = (b < 0) THEN (Abs(a) + Abs(b) \div 2) \div Abs(b)
  ELSE -((Abs(a) + Abs(b) \div 2) \div Abs(b))

RDiv(a, b) == Only({ Rounded(n, d) : n \in { a }, d \in { b } })

RECURSIVE SqrtSearch(_, _, _)
SqrtSearch(n, lo, hi) ==
  IF lo >= hi THEN lo
  ELSE Only({ IF mid * mid <= n THEN SqrtSearch(n, mid, hi)
              ELSE SqrtSearch(n, lo, mid - 1) : mid \in { (lo + hi + 1) \div 2 } })

\* The floor f of the root, rounded up when n is nearer (f + 1)^2.
Nearest(n, f) == IF n - f * f > f THEN f + 1 ELSE f

\* f64::sqrt, rounded to the nearest unit.
SqrtOf(m) == Only({ Nearest(m, f) : f \in { SqrtSearch(m, 0, 46339) } })

Sqrt(n) == Only({ SqrtOf(m) : m \in { n } })

\* f64::to_radians: hundredths of a degree to 1/RadScale radians
\* (pi/180 = 0.0174533).
to_radians(deg) == RDiv(deg * 174533, 10000)

\* f64::cos and f64::sin by their Taylor polynomials; the angles the program
\* rotates by stay within a few degrees.
CosSeries(x2) == RadScale - RDiv(x2, 2) + RDiv(RDiv(x2 * x2, RadScale), 24)

Cos(x) == Only({ CosSeries(x2) : x2 \in { RDiv(x * x, RadScale) } })

SinSeries(x, x2) == x - RDiv(RDiv(x2 * x, RadScale), 6)

Sin(x) == Only({ SinSeries(x, x2) : x2 \in { RDiv(x * x, RadScale) } })

\* cos(k degrees) in 1/DirScale for k = 0..90, at index k + 1.
CosTable ==
  << 10000, 9998, 9994, 9986, 9976, 9962, 9945, 9925, 9903, 9877,
     9848, 9816, 9781, 9744, 9703, 9659, 9613, 9563, 9511, 9455,
     9397, 9336, 9272, 9205, 9135, 9063, 8988, 8910, 8829, 8746,
     8660, 8572, 8480, 8387, 8290, 8192, 8090, 7986, 7880, 7771,
     7660, 7547, 7431, 7314, 7193, 7071, 6947, 6820, 6691, 6561,
     6428, 6293, 6157, 6018, 5878, 5736, 5592, 5446, 5299, 5150,
     5000, 4848, 4695, 4540, 4384, 4226, 4067, 3907, 3746, 3584,
     3420, 3256, 3090, 2924, 2756, 2588, 2419, 2250, 2079, 1908,
     1736, 1564, 1392, 1219, 1045, 872, 698, 523, 349, 175, 0 >>

RECURSIVE AcosSearch(_, _, _)
\* The largest k in lo..hi with cos(k degrees) >= c, for 0 <= c <= DirScale.
AcosSearch(c, lo, hi) ==
  IF lo >= hi THEN lo
  ELSE Only({ IF CosTable[mid + 1] >= c THEN AcosSearch(c, mid, hi)
              ELSE AcosSearch(c, lo, mid - 1) : mid \in { (lo + hi + 1) \div 2 } })

\* f64::acos followed by to_degrees, for 0 <= c <= DirScale: the table
\* inverted, linear between two entries.
Interpolated(c, k) ==
  IF k = 90 THEN 90 * DegScale
  ELSE k * DegScale
       + RDiv((CosTable[k + 1] - c) * DegScale, CosTable[k + 1] - CosTable[k + 2])

AcosAcute(c) == Only({ Interpolated(c, k) : k \in { AcosSearch(c, 0, 90) } })

\* acos in hundredths of a degree over [-1, 1]; a quotient that rounding
\* pushed past 1 in magnitude is read as 1.
Clamped(c) == IF c > DirScale THEN DirScale ELSE IF c < -DirScale THEN -DirScale ELSE c

AcosOf(cc) == IF cc >= 0 THEN AcosAcute(cc) ELSE 180 * DegScale - AcosAcute(-cc)

AcosDeg(c) == Only({ AcosOf(cc) : cc \in { Clamped(c) } })

\* (x, y) / |(x, y)| in 1/DirScale, for a non-zero vector of either scale.
Scaled(x, y, k, m) == << RDiv(x * k, m), RDiv(y * k, m) >>

UnitOf(x, y, n2) ==
  IF n2 < 200000
  THEN Only({ Scaled(x, y, 1000000, m) : m \in { Sqrt(n2 * 10000) } })
  ELSE Only({ Scaled(x, y, DirScale, m) : m \in { Sqrt(n2) } })

Unit(x, y) ==
  Only({ UnitOf(v[1], v[2], v[1] * v[1] + v[2] * v[2]) : v \in { << x, y >> } })

\* The 2-D rotation both the evasion and the enforcement apply, given the
\* cosine and sine of the angle; the result keeps the scale of (x, y).
Rotation(x, y, cos, sin) ==
  << RDiv(x * cos - y * sin, RadScale), RDiv(x * sin + y * cos, RadScale) >>

Rotated(x, y, cos, sin) ==
  Only({ Rotation(x, y, c, s) : c \in { cos }, s \in { sin } })

(***************************************************************************)
(* Entities (struct Target, type Interceptor = Target)                     *)
(***************************************************************************)
Target_new(x, y, vx, vy) == [x |-> x, y |-> y, vx |-> vx, vy |-> vy]

\* Target::update: position += velocity.
update(self) == [self EXCEPT !.x = self.x + self.vx, !.y = self.y + self.vy]

\* The mutant of distance_to: the squares and the root forgotten.
distance_to_unsquared(self, other) == (self.x - other.x) + (self.y - other.y)

\* Target::distance_to.
distance_to(self, other) ==
  LET dx == self.x - other.x
      dy == self.y - other.y
  IN  Sqrt(dx * dx + dy * dy)

\* calculate_angle_between_vectors, in hundredths of a degree.  The quotient
\* dot / (magnitude1 * magnitude2) is the dot product of the two unit
\* vectors.
CosAngle(u1, u2) == RDiv(u1[1] * u2[1] + u1[2] * u2[2], DirScale)

calculate_angle_between_vectors(vx1, vy1, vx2, vy2) ==
  IF (vx1 # 0 \/ vy1 # 0) /\ (vx2 # 0 \/ vy2 # 0)
  THEN Only({ AcosDeg(CosAngle(u1, u2)) :
                u1 \in { Unit(vx1, vy1) }, u2 \in { Unit(vx2, vy2) } })
  ELSE 0

(***************************************************************************)
(* Lead-pursuit guidance (calculate_steering_direction)                    *)
(***************************************************************************)
NoTime == [some |-> FALSE, val |-> 0]
SomeTime(t) == [some |-> TRUE, val |-> t]

\* let interceptor_speed = (from.vx * from.vx + from.vy * from.vy).sqrt()
InterceptorSpeed(from) == Sqrt(from.vx * from.vx + from.vy * from.vy)

Squared(s) == s * s

\* The coefficients a, b, c of the closing-time quadratic.
QuadA(from, to) ==
  RDiv(to.vx * to.vx + to.vy * to.vy
         - Only({ Squared(s) : s \in { InterceptorSpeed(from) } }), QuadUnit)

QuadB(from, to) ==
  RDiv(2 * ((to.x - from.x) * to.vx + (to.y - from.y) * to.vy), QuadUnit)

QuadC(from, to) ==
  RDiv((to.x - from.x) * (to.x - from.x) + (to.y - from.y) * (to.y - from.y), QuadUnit)

Disc(a, b, c) == b * b - 4 * a * c

\* t1 and t2 of the quadratic branch, and t of the linear branch.
Root1Of(a, b, sqrt) == RDiv((-b + sqrt) * TimeScale, 2 * a)
Root2Of(a, b, sqrt) == RDiv((-b - sqrt) * TimeScale, 2 * a)
Root1(a, b, c) == Root1Of(a, b, Sqrt(Disc(a, b, c)))
Root2(a, b, c) == Root2Of(a, b, Sqrt(Disc(a, b, c)))
LinearRoot(b, c) == RDiv(-c * TimeScale, b)

\* The mutant of Earliest: the first candidate pushed, the sort left out.
Earliest_unsorted(candidates) == candidates[1]

\* if t > 0.0 { ... }
IsCandidate(t) == t > 0

\* candidates.sort_by(partial_cmp); candidates[0]
Earliest(candidates) == SortSeq(candidates, LAMBDA p, q : p < q)[1]

\* let mut candidates = vec![]; the two conditional pushes
Candidates(t1, t2) ==
  (IF IsCandidate(t1) THEN << t1 >> ELSE << >>)
    \o (IF IsCandidate(t2) THEN << t2 >> ELSE << >>)

\* if !candidates.is_empty() { sort; t_opt = Some(candidates[0]) }
ChosenOf(candidates) ==
  IF candidates # << >> THEN SomeTime(Earliest(candidates)) ELSE NoTime

Chosen(candidates) == Only({ ChosenOf(cs) : cs \in { candidates } })

\* if t > 0.0 { t_opt = Some(t) }, of the linear branch
ChosenLinear(t) == IF IsCandidate(t) THEN SomeTime(t) ELSE NoTime

\* t_opt for the coefficients a, b, c.
SolveTime(a, b, c) ==
  IF a = 0
  THEN IF b # 0 THEN Only({ ChosenLinear(t) : t \in { LinearRoot(b, c) } }) ELSE NoTime
  ELSE IF Disc(a, b, c) >= 0
       THEN Only({ Chosen(Candidates(t1, t2)) :
                     t1 \in { Root1(a, b, c) }, t2 \in { Root2(a, b, c) } })
       ELSE NoTime

\* t_opt as the code leaves it before the aim point is chosen.
InterceptTime(from, to) ==
  Only({ SolveTime(a, b, c) :
           a \in { QuadA(from, to) }, b \in { QuadB(from, to) }, c \in { QuadC(from, to) } })

\* The mutant of AimPoint: the interceptor's velocity used for the lead.
AimPoint_own_velocity(from, to, t_opt) ==
  IF t_opt.some
  THEN << to.x + RDiv(from.vx * t_opt.val, TimeScale),
          to.y + RDiv(from.vy * t_opt.val, TimeScale) >>
  ELSE << to.x, to.y >>

\* (aim_x, aim_y)
AimPoint(from, to, t_opt) ==
  IF t_opt.some
  THEN << to.x + RDiv(to.vx * t_opt.val, TimeScale),
          to.y + RDiv(to.vy * t_opt.val, TimeScale) >>
  ELSE << to.x, to.y >>

\* let min_deg = 5.5_f64
min_deg == 550

\* The rotation of the enforcement: by min_deg, its sign that of the cross
\* product; re-normalised when the result is not the zero vector.
Nudged(dx, dy, nd) == IF nd[1] # 0 \/ nd[2] # 0 THEN Unit(nd[1], nd[2]) ELSE << dx, dy >>

RotationSign(dx, dy, vx, vy) == IF dx * vy - dy * vx >= 0 THEN 1 ELSE -1

NudgeBy(dx, dy, rot) ==
  Only({ Nudged(dx, dy, nd) : nd \in { Rotated(dx, dy, Cos(rot), Sin(rot)) } })

\* The approach-angle enforcement applied to a unit heading (dx, dy) whose
\* angle to the target velocity is angle.
Enforce(dx, dy, vx, vy, angle) ==
  IF angle <= 5 * DegScale
  THEN Only({ NudgeBy(dx, dy, rot) :
                rot \in { RotationSign(dx, dy, vx, vy) * to_radians(min_deg) } })
  ELSE << dx, dy >>

\* The locals of one call of calculate_steering_direction: the chosen
\* intercept time, the aim point, whether the heading was normalised (false
\* on the early return of the zero vector), the pre-enforcement angle and
\* the returned heading (dx, dy).
Returned(t_opt, aim, angle, h) ==
  [t_opt |-> t_opt, aim |-> aim, aimed |-> TRUE, angle |-> angle,
   dx |-> h[1], dy |-> h[2]]

ReturnedZero(t_opt, aim) ==
  [t_opt |-> t_opt, aim |-> aim, aimed |-> FALSE, angle |-> 0, dx |-> 0, dy |-> 0]

\* Lines 115-134, from the normalised heading d and its angle.
WithAngle(to, t_opt, aim, d, angle) ==
  Only({ Returned(t_opt, aim, angle, h) :
           h \in { Enforce(d[1], d[2], to.vx, to.vy, angle) } })

\* Line 116, from the normalised heading d.
WithHeading(to, t_opt, aim, d) ==
  Only({ WithAngle(to, t_opt, aim, d, a) :
           a \in { calculate_angle_between_vectors(d[1], d[2], to.vx, to.vy) } })

\* Lines 104-113, from the aim point.
WithAim(from, to, t_opt, aim) ==
  IF aim[1] # from.x \/ aim[2] # from.y
  THEN Only({ WithHeading(to, t_opt, aim, u) :
                u \in { Unit(aim[1] - from.x, aim[2] - from.y) } })
  ELSE ReturnedZero(t_opt, aim)

\* Lines 97-102, from the chosen time.
WithTime(from, to, t_opt) ==
  Only({ WithAim(from, to, t_opt, p) : p \in { AimPoint(from, to, t_opt) } })

SteeringLocals(from, to) ==
  Only({ WithTime(io[1], io[2], io[3]) :
           io \in { << from, to, InterceptTime(from, to) >> } })

Heading(locals) == << locals.dx, locals.dy >>

calculate_steering_direction(from, to) == Heading(SteeringLocals(from, to))

(***************************************************************************)
(* Evasion controller (main, lines 201-221)                                *)
(***************************************************************************)
\* let target_initial_height = 30.0
target_initial_height == 30 * PosScale

\* let p_gain = 0.2, in tenths
p_gain == 2

\* let interceptor_speed = 2.5
interceptor_speed == 250

\* -height_error * p_gain, in hundredths of a degree (a height error of one
\* position unit is 1/PosScale metre, and DegScale = PosScale).
CorrectionAngle(t) == -RDiv((t.y - target_initial_height) * p_gain, 10)

\* The mutant of BlendedAngle: the two weights exchanged.
BlendedAngle_swapped(random_angle_deg, correction_angle_deg, weight) ==
  RDiv(random_angle_deg * weight, 10)
    + RDiv(correction_angle_deg * (10 - weight), 10)

\* random * (1.0 - correction_weight) + correction * correction_weight, the
\* weight in tenths.
BlendedAngle(random_angle_deg, correction_angle_deg, weight) ==
  RDiv(random_angle_deg * (10 - weight), 10)
    + RDiv(correction_angle_deg * weight, 10)

\* The target after the evasion update of one tick.
VelocitySet(e, v) == [e EXCEPT !.vx = v[1], !.vy = v[2]]

WithVelocity(e, v) == Only({ VelocitySet(e, w) : w \in { v } })

RotatedBy(t, rad) == WithVelocity(t, Rotated(t.vx, t.vy, Cos(rad), Sin(rad)))

Evade(t, random_angle_deg, weight) ==
  Only({ RotatedBy(t, rad) :
           rad \in { to_radians(BlendedAngle(random_angle_deg, CorrectionAngle(t), weight)) } })

\* The interceptor after the guidance update of one tick (lines 223-234).
\* if dir_magnitude > 0.0 { dir_x /= dir_magnitude; dir_y /= dir_magnitude }
NormalizedOf(dir) == IF dir[1] # 0 \/ dir[2] # 0 THEN Unit(dir[1], dir[2]) ELSE dir

Normalized(dir) == Only({ NormalizedOf(n) : n \in { dir } })

\* interceptor.vx = dir_x * interceptor_speed, and vy
AtSpeed(dir) ==
  << RDiv(dir[1] * interceptor_speed, DirScale),
     RDiv(dir[2] * interceptor_speed, DirScale) >>

\* The interceptor steered along the heading a guidance call returned.
Steered(i, dir) ==
  Only({ WithVelocity(i, AtSpeed(n)) : n \in { Normalized(dir) } })

(***************************************************************************)
(* State                                                                   *)
(***************************************************************************)
VARIABLES
  target,                 \* let mut target
  interceptor,            \* let mut interceptor
  target_positions,       \* let mut target_positions
  interceptor_positions,  \* let mut interceptor_positions
  collision_point,        \* Option<(f64, f64)>
  collision_angle,        \* Option<f64>
  collision_threshold,    \* run parameter, 1.0 as shipped
  correction_weight,      \* run parameter in tenths, 0.0 as shipped
  step,                   \* _step: the iterations completed so far
  pc,                     \* "loop", "report", "end"; "call", "returned"
  verdict,                \* which result line main prints
  steering                \* the locals of the latest guidance call

vars ==
  << target, interceptor, target_positions, interceptor_positions,
     collision_point, collision_angle, collision_threshold, correction_weight,
     step, pc, verdict, steering >>

\* The tick budget of the model; the program runs `for _step in 0..1000`.
TickBudget == 3

\* rng.gen_range(-5.0..5.0): the ends and the middle of the half-open range,
\* in hundredths of a degree.
RandomAngles == {-500, 0, 499}

\* Interceptor starts: (0, 0), or a draw of gen_range(0.0..50.0) x
\* gen_range(0.0..20.0) under --randomize-interceptor.
InterceptorStarts == { << 0, 0 >>, << 1000, 1500 >> }

\* Collision thresholds of a run: negative, the shipped 1.0, and three that
\* the first ticks' distances cross.
Thresholds == {-100, 100, 2550, 2700, 3100}

\* Blend weights of a run, in tenths: the shipped 0.0, 0.6 and 1.0.
Weights == {0, 6, 10}

NoPoint == [some |-> FALSE, x |-> 0, y |-> 0]
SomePoint(x, y) == [some |-> TRUE, x |-> x, y |-> y]
NoAngle == [some |-> FALSE, val |-> 0]
SomeAngle(a) == [some |-> TRUE, val |-> a]

NoSteering ==
  [t_opt |-> NoTime, aim |-> << 0, 0 >>, aimed |-> FALSE, angle |-> 0,
   dx |-> 0, dy |-> 0]

(***************************************************************************)
(* Simulation driver (main)                                                *)
(***************************************************************************)
Init ==
  /\ target = Target_new(0, 30 * PosScale, 2 * PosScale, 0)
  /\ \E s \in InterceptorStarts : interceptor = Target_new(s[1], s[2], 0, 0)
  /\ target_positions = << << target.x, target.y >> >>
  /\ interceptor_positions = << << interceptor.x, interceptor.y >> >>
  /\ collision_point = NoPoint
  /\ collision_angle = NoAngle
  /\ collision_threshold \in Thresholds
  /\ correction_weight \in Weights
  /\ step = 0
  /\ pc = "loop"
  /\ verdict = "none"
  /\ steering = NoSteering

\* if distance < collision_threshold
Hit(i, t, threshold) == distance_to(i, t) < threshold

\* The mutant of RecordedPoint: the interceptor's position recorded.
RecordedPoint_interceptor(t, i) == SomePoint(i.x, i.y)

\* collision_point = Some((target.x, target.y))
RecordedPoint(t, i) == SomePoint(t.x, t.y)

\* collision_angle = Some(angle between the two velocities)
RecordedAngle(t, i) ==
  SomeAngle(calculate_angle_between_vectors(t.vx, t.vy, i.vx, i.vy))

\* The mutant of Breaks: the break left out.
Breaks_never(hit) == FALSE

\* break, at the end of the collision branch
Breaks(hit) == hit

\* The mutant of Stored: the new sample written over the last one.
Stored_overwrite(positions, e) ==
  [positions EXCEPT ![Len(positions)] = << e.x, e.y >>]

\* target_positions.push((target.x, target.y)), and the interceptor's
Stored(positions, e) == Append(positions, << e.x, e.y >>)

\* The guidance update and the integration of the interceptor, against the
\* target t as the evasion left it.
Pursue(t) ==
  \E locals \in { SteeringLocals(interceptor, t) } :
    /\ steering' = locals
    /\ interceptor' = update(Steered(interceptor, Heading(locals)))

\* One iteration of the loop: the collision test and, unless it breaks,
\* evasion, guidance, integration and recording.
Tick ==
  /\ pc = "loop"
  /\ step < TickBudget
  /\ LET hit == Hit(interceptor, target, collision_threshold)
     IN  /\ collision_point' =
              IF hit THEN RecordedPoint(target, interceptor) ELSE collision_point
         /\ collision_angle' =
              IF hit THEN RecordedAngle(target, interceptor) ELSE collision_angle
         /\ IF Breaks(hit)
            THEN /\ pc' = "report"
                 /\ UNCHANGED << target, interceptor, target_positions,
                                 interceptor_positions, step, steering >>
            ELSE \E random_angle_deg \in RandomAngles :
                 \E evaded \in { Evade(target, random_angle_deg, correction_weight) } :
                   /\ target' = update(evaded)
                   /\ Pursue(evaded)
                   /\ target_positions' = Stored(target_positions, target')
                   /\ interceptor_positions' = Stored(interceptor_positions, interceptor')
                   /\ step' = step + 1
                   /\ pc' = "loop"
  /\ UNCHANGED << collision_threshold, correction_weight, verdict >>

\* The loop ends with its range exhausted.
LoopExit ==
  /\ pc = "loop"
  /\ step = TickBudget
  /\ pc' = "report"
  /\ UNCHANGED << target, interceptor, target_positions, interceptor_positions,
                  collision_point, collision_angle, collision_threshold,
                  correction_weight, step, verdict, steering >>

\* The result line printed after the loop (lines 246-260).
Verdict(point, angle) ==
  IF point.some
  THEN IF angle.some /\ angle.val > 5 * DegScale THEN "angle_above_5"
       ELSE "angle_not_above_5"
  ELSE "no_collision"

Report ==
  /\ pc = "report"
  /\ verdict' = Verdict(collision_point, collision_angle)
  /\ pc' = "end"
  /\ UNCHANGED << target, interceptor, target_positions, interceptor_positions,
                  collision_point, collision_angle, collision_threshold,
                  correction_weight, step, steering >>

Next == Tick \/ LoopExit \/ Report

Spec == Init /\ [][Next]_vars

\* The loop is sequential code: whenever a step is possible one is taken.
FairSpec == Spec /\ WF_vars(Next)

(***************************************************************************)
(* calculate_steering_direction called on its own                          *)
(***************************************************************************)
SteerTargetXs == {-1200, -1000, 0, 500, 1000, 1200}
SteerTargetYs == {-100, 0, 100, 500}
SteerTargetVelocities == { << 0, 0 >>, << 200, 0 >>, << -200, 0 >>, << 0, 100 >> }
SteerInterceptorPositions == { << 0, 0 >>, << 500, -100 >> }
SteerInterceptorVelocities ==
  { << 0, 0 >>, << 100, 0 >>, << 200, 0 >>, << 300, 0 >>, << 0, 250 >> }

InitSteer ==
  /\ \E x \in SteerTargetXs, y \in SteerTargetYs, v \in SteerTargetVelocities :
       target = Target_new(x, y, v[1], v[2])
  /\ \E p \in SteerInterceptorPositions, v \in SteerInterceptorVelocities :
       interceptor = Target_new(p[1], p[2], v[1], v[2])
  /\ target_positions = << >>
  /\ interceptor_positions = << >>
  /\ collision_point = NoPoint
  /\ collision_angle = NoAngle
  /\ collision_threshold = PosScale
  /\ correction_weight = 0
  /\ step = 0
  /\ pc = "call"
  /\ verdict = "none"
  /\ steering = NoSteering

Steer ==
  /\ pc = "call"
  /\ steering' = SteeringLocals(interceptor, target)
  /\ pc' = "returned"
  /\ UNCHANGED << target, interceptor, target_positions, interceptor_positions,
                  collision_point, collision_angle, collision_threshold,
                  correction_weight, step, verdict >>

NextSteer == Steer

SpecSteer == InitSteer /\ [][NextSteer]_vars

(***************************************************************************)
(* Properties                                                              *)
(***************************************************************************)
NonZero(x, y) == x # 0 \/ y # 0

\* The angle between the heading a guidance call returned and the target's
\* velocity, in hundredths of a degree.
ReturnedAngle ==
  calculate_angle_between_vectors(steering.dx, steering.dy, target.vx, target.vy)

\* C1: a non-zero heading returned by calculate_steering_direction for a
\* target of non-zero velocity is never at less than 5 degrees to that
\* velocity.
C1_ApproachAngleAtLeast5 ==
  (pc = "returned" /\ NonZero(target.vx, target.vy)
     /\ NonZero(steering.dx, steering.dy))
    => ReturnedAngle >= 5 * DegScale

\* The roots the closing-time equation of the present inputs has: both roots
\* of the quadratic when the discriminant is not negative, the one root of
\* the linear case when b is not zero, none otherwise.
RootsOfInputs ==
  LET a == QuadA(interceptor, target)
      b == QuadB(interceptor, target)
      c == QuadC(interceptor, target)
  IN  IF a = 0
      THEN IF b # 0 THEN { LinearRoot(b, c) } ELSE {}
      ELSE IF Disc(a, b, c) >= 0 THEN { Root1(a, b, c), Root2(a, b, c) } ELSE {}

PositiveRoots == { t \in RootsOfInputs : t > 0 }

\* C2: the chosen intercept time is the smallest strictly positive root, no
\* root <= 0 is ever chosen, and with no strictly positive root no time is
\* chosen and the aim point is the target's current position.
C2_SmallestPositiveRoot ==
  pc = "returned" =>
    IF PositiveRoots = {}
    THEN /\ ~steering.t_opt.some
         /\ steering.aim = << target.x, target.y >>
    ELSE /\ steering.t_opt.some
         /\ steering.t_opt.val \in PositiveRoots
         /\ \A t \in PositiveRoots : steering.t_opt.val <= t

\* A call whose quadratic has two distinct positive roots.
C2_Witness ==
  /\ pc = "returned"
  /\ QuadA(interceptor, target) # 0
  /\ Cardinality(PositiveRoots) = 2
  /\ steering.t_opt.some

\* C3: a collision is recorded at most once, and from the tick that records
\* it on nothing of the run changes: positions, velocities, trajectories and
\* the tick count stay as they are and the loop is left.
C3_CollisionIsTerminal ==
  /\ [](collision_point.some => (collision_angle.some /\ pc # "loop"))
  /\ [][ /\ collision_point'.some =>
              UNCHANGED << target, interceptor, target_positions,
                           interceptor_positions, step >>
         /\ collision_point.some =>
              UNCHANGED << collision_point, collision_angle >> ]_vars

\* A run that collided after at least one tick and went on to its report.
C3_Witness == collision_point.some /\ step >= 1 /\ pc = "end"

\* C4: the loop runs at most TickBudget iterations and the run ends; with a
\* negative threshold no collision test succeeds, nothing is recorded, and
\* the loop is left only with the whole budget spent.
C4_BudgetAndNegativeThreshold ==
  /\ [](step <= TickBudget)
  /\ [](collision_threshold < 0 =>
          /\ ~Hit(interceptor, target, collision_threshold)
          /\ ~collision_point.some
          /\ ~collision_angle.some
          /\ (pc # "loop" => step = TickBudget))
  /\ <>(pc = "end")

\* A run with a negative threshold that reported no collision.
C4_Witness ==
  /\ collision_threshold < 0
  /\ pc = "end"
  /\ verdict = "no_collision"
  /\ step = TickBudget

\* C5: for a stationary target the aim point is the target's position.
C5_StationaryTargetAim ==
  (pc = "returned" /\ target.vx = 0 /\ target.vy = 0)
    => steering.aim = << target.x, target.y >>

\* A stationary target for which an intercept time was selected.
C5_Witness ==
  /\ pc = "returned"
  /\ target.vx = 0 /\ target.vy = 0
  /\ steering.t_opt.some
  /\ steering.t_opt.val > 0

\* C6: with blend weight 1.0 the blended angle is 0 for every draw, so the
\* target keeps its initial velocity and its reference altitude.
C6_PureCorrectionHoldsCourse ==
  correction_weight = 10 =>
    /\ target.vx = 2 * PosScale /\ target.vy = 0
    /\ target.y = target_initial_height
    /\ \A r \in RandomAngles :
         /\ BlendedAngle(r, CorrectionAngle(target), correction_weight) = 0
         /\ Evade(target, r, correction_weight) = target

\* A run with weight 1.0 that spent its whole budget.
C6_Witness == correction_weight = 10 /\ step = TickBudget /\ pc = "end"

AsEntity(p) == Target_new(p[1], p[2], 0, 0)

\* C7: a recorded collision holds the target's position of the tick start,
\* where the two entities are closer than the threshold, and the angle
\* between the velocities of the previous tick's update, which are the last
\* displacements of the two trajectories (angle 0 at tick 0).
C7_CollisionAtTickStart ==
  collision_point.some =>
    LET n == Len(target_positions)
    IN  /\ << collision_point.x, collision_point.y >> = target_positions[n]
        /\ distance_to(AsEntity(interceptor_positions[n]),
                       AsEntity(target_positions[n])) < collision_threshold
        /\ collision_angle.some
        /\ IF n = 1
           THEN collision_angle.val = 0
           ELSE collision_angle.val =
                  calculate_angle_between_vectors(
                    target_positions[n][1] - target_positions[n - 1][1],
                    target_positions[n][2] - target_positions[n - 1][2],
                    interceptor_positions[n][1] - interceptor_positions[n - 1][1],
                    interceptor_positions[n][2] - interceptor_positions[n - 1][2])

\* A collision detected after at least one tick, the two velocities apart.
C7_Witness == collision_point.some /\ step >= 1 /\ collision_angle.val > 0

\* The angle to the target velocity before the enforcement rotated the
\* heading is steering.angle.
\* C8: when the pre-enforcement angle is at most 5 degrees, the rotation
\* leaves the heading at a strictly greater angle to the target velocity.
C8_RotationIncreasesAngle ==
  (pc = "returned" /\ NonZero(target.vx, target.vy) /\ steering.aimed
     /\ steering.angle <= 5 * DegScale)
    => ReturnedAngle > steering.angle

C10_TrajectoriesAppendOnly ==
  /\ [](/\ Len(target_positions) = Len(interceptor_positions)
        /\ Len(target_positions) = step + 1
        /\ target_positions[Len(target_positions)] = << target.x, target.y >>
        /\ interceptor_positions[Len(interceptor_positions)]
             = << interceptor.x, interceptor.y >>)
  /\ [][ /\ Len(target_positions') >= Len(target_positions)
         /\ Len(interceptor_positions') >= Len(interceptor_positions)
         /\ \A k \in 1..Len(target_positions) :
              target_positions'[k] = target_positions[k]
         /\ \A k \in 1..Len(interceptor_positions) :
              interceptor_positions'[k] = interceptor_positions[k]
         /\ (collision_point'.some /\ ~collision_point.some) =>
              UNCHANGED << target_positions, interceptor_positions >> ]_vars

\* A collision recorded after two ticks had appended their samples.
C10_Witness == collision_point.some /\ Len(target_positions) >= 3

====
